---- MODULE Spec2Model ----
(***************************************************************************)
(* A model of the food-ordering workflow: the shopping cart and order      *)
(* placement (Order_Placement.py), payment validation against the mock     *)
(* gateway (Payment_Processing.py), user registration                      *)
(* (User_Registration.py) and restaurant search (Restaurant_Browsing.py).  *)
(*                                                                         *)
(* Money is counted in mills (1/1000 of a currency unit), so that the      *)
(* 10% tax of a price given in whole cents is an integer: 8.99 is 8990     *)
(* and the flat delivery fee 5.00 is 5000.  Python computes these in       *)
(* binary floating point; the model computes the exact decimal values.     *)
(*                                                                         *)
(* The four components share no state.  Each has its own next-state        *)
(* relation and specification: Spec (cart and order), SpecPayment,         *)
(* SpecRegistration and SpecBrowsing (Restaurant_Browsing.py).             *)
(***************************************************************************)
EXTENDS Integers, Sequences, FiniteSets, TLC

VARIABLES
    items,      \* Cart.items: sequence of [name, price, quantity]
    menu,       \* RestaurantMenu.available_items
    last,       \* the last cart/order operation: [op, ret, before, ...]
    hist,       \* history: per name, the add_item calls since it was absent
    pay,        \* the last PaymentProcessing call: [fn, ..., out]
    users,      \* UserRegistration.users: email -> [password, confirmed]
    reg,        \* the last UserRegistration.register call
    accepted,   \* history: per email, the passwords of its successful calls
    user_profile,   \* UserProfile: [delivery_address]
    restaurants,    \* RestaurantDatabase.restaurants
    search      \* the last RestaurantBrowsing call: [fn, ..., out]

vars ==
    <<items, menu, last, hist, pay, users, reg, accepted, user_profile,
      restaurants, search>>

(***************************************************************************)
(* Bounds and inputs of the cart model                                     *)
(***************************************************************************)

\* Quantities are kept within -1 .. MaxQty (add_item itself has no bound).
MaxQty == 2

QtyRange == (0 - 1)..MaxQty

\* Item names; "burger" differs from "Burger" only in case.
Names == {"Burger", "burger"}

\* Unit prices, in mills: 8.99 and 15.99.
Prices == {8990, 15990}

\* Quantities passed to add_item and to update_item_quantity.
AddQuantities == {0 - 1, 1, 2}

NewQuantities == {0 - 1, 0, 2}

\* Menus an OrderPlacement may be constructed with; the first is the one of
\* TestOrderPlacement.setUp (it has "Burger" and not "burger").
Menus == { {"Burger", "Pizza", "Salad"}, {"Burger", "burger"}, {} }

\* PaymentMethod is the class of the module; "declined" is the patched
\* payment method of test_confirm_order_failed_payment (process_payment
\* returns False whatever the amount).
PaymentMethods == {"PaymentMethod", "declined"}

(***************************************************************************)
(* CartItem and Cart                                                       *)
(***************************************************************************)

CartItem(name, price, quantity) ==
    [name |-> name, price |-> price, quantity |-> quantity]

update_quantity(item, new_quantity) ==
    [item EXCEPT !.quantity = new_quantity]

get_subtotal(item) == item.price * item.quantity

\* A scan that never finds the name.
find_item_never(its, name, i) == 0

\* The index of the first item called name at or after position i, 0 if
\* there is none: the scan of "for item in self.items: if item.name == name".
RECURSIVE find_item(_, _, _)
find_item(its, name, i) ==
    IF i > Len(its) THEN 0
    ELSE IF its[i].name = name THEN i
    ELSE find_item(its, name, i + 1)

\* An add_item that also overwrites the unit price of an existing entry.
add_item_reprice(its, name, price, quantity) ==
    LET i == find_item(its, name, 1) IN
    IF i # 0
    THEN LET item == update_quantity(its[i], its[i].quantity + quantity) IN
         [items |-> [its EXCEPT ![i] = [item EXCEPT !.price = price]],
          ret   |-> "Updated " \o name \o " quantity to "
                        \o ToString(item.quantity)]
    ELSE [items |-> Append(its, CartItem(name, price, quantity)),
          ret   |-> "Added " \o name \o " to cart"]

add_item(its, name, price, quantity) ==
    LET i == find_item(its, name, 1) IN
    IF i # 0
    THEN LET item == update_quantity(its[i], its[i].quantity + quantity) IN
         [items |-> [its EXCEPT ![i] = item],
          ret   |-> "Updated " \o name \o " quantity to "
                        \o ToString(item.quantity)]
    ELSE [items |-> Append(its, CartItem(name, price, quantity)),
          ret   |-> "Added " \o name \o " to cart"]

\* A remove_item that cuts the list at the first entry of the name.
remove_item_truncate(its, name) ==
    LET i == find_item(its, name, 1) IN
    [items |-> IF i = 0 THEN its ELSE SubSeq(its, 1, i - 1),
     ret   |-> "Removed " \o name \o " from cart"]

remove_item(its, name) ==
    [items |-> SelectSeq(its, LAMBDA item : item.name # name),
     ret   |-> "Removed " \o name \o " from cart"]

update_item_quantity(its, name, new_quantity) ==
    LET i == find_item(its, name, 1) IN
    IF i # 0
    THEN [items |-> [its EXCEPT ![i] = update_quantity(its[i], new_quantity)],
          ret   |-> "Updated " \o name \o " quantity to "
                        \o ToString(new_quantity)]
    ELSE [items |-> its, ret |-> name \o " not found in cart"]

\* sum(item.get_subtotal() for item in self.items), from position i on.
RECURSIVE sum_subtotals(_, _)
sum_subtotals(its, i) ==
    IF i > Len(its) THEN 0
    ELSE get_subtotal(its[i]) + sum_subtotals(its, i + 1)

\* The tax rate, in percent (subtotal * 0.10).
TaxRatePercent == 10

\* The flat delivery fee 5.00, in mills.
DeliveryFee == 5000

\* A calculate_total that taxes the delivery fee too.
calculate_total_tax_on_fee(its) ==
    LET subtotal == sum_subtotals(its, 1)
        delivery_fee == DeliveryFee
        tax == ((subtotal + delivery_fee) * TaxRatePercent) \div 100
    IN  [subtotal |-> subtotal, tax |-> tax, delivery_fee |-> delivery_fee,
         total |-> subtotal + tax + delivery_fee]

calculate_total(its) ==
    LET subtotal == sum_subtotals(its, 1)
        tax == (subtotal * TaxRatePercent) \div 100
        delivery_fee == DeliveryFee
        total == subtotal + tax + delivery_fee
    IN  [subtotal |-> subtotal, tax |-> tax, delivery_fee |-> delivery_fee,
         total |-> total]

view_cart(its) ==
    [i \in 1..Len(its) |->
        [name |-> its[i].name, quantity |-> its[i].quantity,
         subtotal |-> get_subtotal(its[i])]]

(***************************************************************************)
(* RestaurantMenu, PaymentMethod and OrderPlacement                        *)
(***************************************************************************)

is_item_available(available_items, item_name) == item_name \in available_items

\* PaymentMethod.process_payment, and the patched method that declines.
PaymentMethod_process_payment(pm, amount) ==
    IF pm = "PaymentMethod" THEN amount > 0 ELSE FALSE

\* The loop of validate_order from position i on: the first item that is not
\* on the menu ends it.
RECURSIVE validate_items(_, _, _)
validate_items(its, available_items, i) ==
    IF i > Len(its) THEN [success |-> TRUE, message |-> "Order is valid"]
    ELSE IF ~is_item_available(available_items, its[i].name)
    THEN [success |-> FALSE, message |-> its[i].name \o " is not available"]
    ELSE validate_items(its, available_items, i + 1)

\* A validation that keeps scanning and reports the last unavailable item.
RECURSIVE validate_items_last(_, _, _)
validate_items_last(its, available_items, i) ==
    IF i > Len(its) THEN [success |-> TRUE, message |-> "Order is valid"]
    ELSE LET rest == validate_items_last(its, available_items, i + 1) IN
         IF ~rest.success THEN rest
         ELSE IF ~is_item_available(available_items, its[i].name)
         THEN [success |-> FALSE,
               message |-> its[i].name \o " is not available"]
         ELSE rest

validate_order_last(its, available_items) ==
    IF its = <<>> THEN [success |-> FALSE, message |-> "Cart is empty"]
    ELSE validate_items_last(its, available_items, 1)

validate_order(its, available_items) ==
    IF its = <<>> THEN [success |-> FALSE, message |-> "Cart is empty"]
    ELSE validate_items(its, available_items, 1)

\* The end of confirm_order: the result for a payment outcome.
\* An outcome that ignores the payment result.
confirm_outcome_always(payment_success) ==
    [success |-> TRUE, message |-> "Order confirmed",
     order_id |-> "ORD123456", estimated_delivery |-> "45 minutes"]

confirm_outcome(payment_success) ==
    IF payment_success
    THEN [success |-> TRUE, message |-> "Order confirmed",
          order_id |-> "ORD123456", estimated_delivery |-> "45 minutes"]
    ELSE [success |-> FALSE, message |-> "Payment failed"]

\* A confirm_order that charges before it validates.
confirm_order_charge_first(its, available_items, pm) ==
    LET total == calculate_total(its).total
        payment_success == PaymentMethod_process_payment(pm, total)
        v == validate_order(its, available_items)
        charge == [fn |-> "process_payment", amount |-> total,
                   ret |-> payment_success]
        check == [fn |-> "validate_order", ret |-> v]
    IN  IF ~v.success
        THEN [ret |-> [success |-> FALSE,
                       message |-> "Order validation failed"],
              events |-> <<charge, check>>]
        ELSE [ret |-> confirm_outcome(payment_success),
              events |-> <<charge, check>>]

\* confirm_order, with the calls it makes on its collaborators in order.
confirm_order(its, available_items, pm) ==
    LET v == validate_order(its, available_items)
        check == [fn |-> "validate_order", ret |-> v]
    IN  IF ~v.success
        THEN [ret |-> [success |-> FALSE,
                       message |-> "Order validation failed"],
              events |-> <<check>>]
        ELSE LET total == calculate_total(its).total
                 payment_success == PaymentMethod_process_payment(pm, total)
             IN  [ret |-> confirm_outcome(payment_success),
                  events |-> <<check,
                               [fn |-> "process_payment", amount |-> total,
                                ret |-> payment_success]>>]

\* A checkout that empties the cart once it has read it.
proceed_to_checkout_clears(its, profile) ==
    LET total_info == calculate_total(its) IN
    [items |-> <<>>, user_profile |-> profile,
     ret |-> [items |-> view_cart(its), total_info |-> total_info,
              delivery_address |-> profile.delivery_address]]

\* proceed_to_checkout: what it returns, and the cart and the profile it
\* leaves (it assigns to neither).
proceed_to_checkout(its, profile) ==
    LET total_info == calculate_total(its) IN
    [items |-> its, user_profile |-> profile,
     ret |-> [items |-> view_cart(its), total_info |-> total_info,
              delivery_address |-> profile.delivery_address]]

(***************************************************************************)
(* RestaurantDatabase                                                      *)
(*                                                                         *)
(* cuisine and location are sequences of characters (they are compared     *)
(* after lower()); a rating is counted in tenths: 4.5 is 45.               *)
(***************************************************************************)

\* The five records of RestaurantDatabase.__init__.
SampleRestaurants ==
    <<
      [name |-> "Italian Bistro",
       cuisine |-> <<"I", "t", "a", "l", "i", "a", "n">>,
       location |-> <<"D", "o", "w", "n", "t", "o", "w", "n">>,
       rating |-> 45, price_range |-> "$$", delivery |-> TRUE],
      [name |-> "Sushi House",
       cuisine |-> <<"J", "a", "p", "a", "n", "e", "s", "e">>,
       location |-> <<"M", "i", "d", "t", "o", "w", "n">>,
       rating |-> 48, price_range |-> "$$$", delivery |-> FALSE],
      [name |-> "Burger King",
       cuisine |-> <<"F", "a", "s", "t", " ", "F", "o", "o", "d">>,
       location |-> <<"U", "p", "t", "o", "w", "n">>,
       rating |-> 40, price_range |-> "$", delivery |-> TRUE],
      [name |-> "Taco Town",
       cuisine |-> <<"M", "e", "x", "i", "c", "a", "n">>,
       location |-> <<"D", "o", "w", "n", "t", "o", "w", "n">>,
       rating |-> 42, price_range |-> "$", delivery |-> TRUE],
      [name |-> "Pizza Palace",
       cuisine |-> <<"I", "t", "a", "l", "i", "a", "n">>,
       location |-> <<"U", "p", "t", "o", "w", "n">>,
       rating |-> 39, price_range |-> "$$", delivery |-> TRUE]
    >>

\* Another record set: cuisines and locations in other cases, a rating of 0
\* and a rating below 0.
OtherRestaurants ==
    <<
      [name |-> "Cafe Zero",
       cuisine |-> <<"i", "t", "a", "l", "i", "a", "n">>,
       location |-> <<"D", "O", "W", "N", "T", "O", "W", "N">>,
       rating |-> 0, price_range |-> "$", delivery |-> TRUE],
      [name |-> "Below Zero",
       cuisine |-> <<"I", "t", "a", "l", "i", "a", "n">>,
       location |-> <<"D", "o", "w", "n", "t", "o", "w", "n">>,
       rating |-> 0 - 10, price_range |-> "$", delivery |-> FALSE],
      [name |-> "Italian Bistro",
       cuisine |-> <<"I", "t", "a", "l", "i", "a", "n">>,
       location |-> <<"D", "o", "w", "n", "t", "o", "w", "n">>,
       rating |-> 45, price_range |-> "$$", delivery |-> TRUE],
      [name |-> "Trattoria",
       cuisine |-> <<"I", "T", "A", "L", "I", "A", "N">>,
       location |-> <<"U", "p", "t", "o", "w", "n">>,
       rating |-> 40, price_range |-> "$$", delivery |-> TRUE]
    >>

Databases == {SampleRestaurants, OtherRestaurants}

(***************************************************************************)
(* The cart and order state machine                                        *)
(***************************************************************************)

InCart(its, name) == \E i \in 1..Len(its) : its[i].name = name

\* hist[name].tracked: name was added to a cart that did not hold it and has
\* been neither removed nor updated since; sum and first are then the sum of
\* the quantities added and the price of the first of these calls.
NoHistory == [tracked |-> FALSE, sum |-> 0, first |-> 0]

PaymentIdle == pay = [fn |-> "none"]

RegistrationIdle ==
    /\ users = <<>>
    /\ reg = [fn |-> "none"]
    /\ accepted = <<>>

BrowsingIdle ==
    /\ restaurants = SampleRestaurants
    /\ search = [fn |-> "none"]

\* The UserProfile of TestOrderPlacement.setUp.
UserProfile(delivery_address) == [delivery_address |-> delivery_address]

OrderIdle ==
    /\ items = <<>>
    /\ menu = {"Burger", "Pizza", "Salad"}
    /\ user_profile = UserProfile("123 Main St")
    /\ last = [op |-> "init"]
    /\ hist = [n \in Names |-> NoHistory]

Init ==
    /\ items = <<>>
    /\ menu \in Menus
    /\ user_profile = UserProfile("123 Main St")
    /\ last = [op |-> "init"]
    /\ hist = [n \in Names |-> NoHistory]
    /\ PaymentIdle
    /\ RegistrationIdle
    /\ BrowsingIdle

AddItem ==
    \E name \in Names, price \in Prices, quantity \in AddQuantities :
        LET r == add_item(items, name, price, quantity) IN
        /\ \A i \in 1..Len(r.items) : r.items[i].quantity \in QtyRange
        /\ items' = r.items
        /\ last' = [op |-> "add_item", ret |-> r.ret]
        /\ hist' = [hist EXCEPT ![name] =
                      IF ~InCart(items, name)
                      THEN [tracked |-> TRUE, sum |-> quantity,
                            first |-> price]
                      ELSE IF @.tracked
                      THEN [@ EXCEPT !.sum = @ + quantity]
                      ELSE NoHistory]
        /\ UNCHANGED <<menu, user_profile>>
        /\ UNCHANGED <<pay, users, reg, accepted, restaurants, search>>

RemoveItem ==
    \E name \in Names :
        LET r == remove_item(items, name) IN
        /\ items' = r.items
        /\ last' = [op |-> "remove_item", name |-> name, ret |-> r.ret,
                    before |-> items]
        /\ hist' = [hist EXCEPT ![name] = NoHistory]
        /\ UNCHANGED <<menu, user_profile>>
        /\ UNCHANGED <<pay, users, reg, accepted, restaurants, search>>

UpdateItemQuantity ==
    \E name \in Names, new_quantity \in NewQuantities :
        LET r == update_item_quantity(items, name, new_quantity) IN
        /\ items' = r.items
        /\ last' = [op |-> "update_item_quantity", ret |-> r.ret]
        /\ hist' = [hist EXCEPT ![name] = NoHistory]
        /\ UNCHANGED <<menu, user_profile>>
        /\ UNCHANGED <<pay, users, reg, accepted, restaurants, search>>

CalculateTotal ==
    /\ last' = [op |-> "calculate_total", ret |-> calculate_total(items)]
    /\ UNCHANGED <<items, menu, hist, user_profile>>
    /\ UNCHANGED <<pay, users, reg, accepted, restaurants, search>>

ValidateOrder ==
    /\ last' = [op |-> "validate_order", ret |-> validate_order(items, menu)]
    /\ UNCHANGED <<items, menu, hist, user_profile>>
    /\ UNCHANGED <<pay, users, reg, accepted, restaurants, search>>

ViewCart ==
    /\ last' = [op |-> "view_cart", ret |-> view_cart(items)]
    /\ UNCHANGED <<items, menu, hist, user_profile>>
    /\ UNCHANGED <<pay, users, reg, accepted, restaurants, search>>

ProceedToCheckout ==
    LET r == proceed_to_checkout(items, user_profile) IN
    /\ items' = r.items
    /\ user_profile' = r.user_profile
    /\ last' = [op |-> "proceed_to_checkout", ret |-> r.ret,
                before |-> [items |-> items, menu |-> menu,
                            user_profile |-> user_profile]]
    /\ UNCHANGED <<menu, hist>>
    /\ UNCHANGED <<pay, users, reg, accepted, restaurants, search>>

ConfirmOrder ==
    \E pm \in PaymentMethods :
        LET r == confirm_order(items, menu, pm) IN
        /\ last' = [op |-> "confirm_order", pm |-> pm, ret |-> r.ret,
                    events |-> r.events]
        /\ UNCHANGED <<items, menu, hist, user_profile>>
        /\ UNCHANGED <<pay, users, reg, accepted, restaurants, search>>

Next ==
    \/ AddItem
    \/ RemoveItem
    \/ UpdateItemQuantity
    \/ CalculateTotal
    \/ ValidateOrder
    \/ ViewCart
    \/ ProceedToCheckout
    \/ ConfirmOrder

Spec == Init /\ [][Next]_vars

(***************************************************************************)
(* Properties of the cart and of order placement                           *)
(***************************************************************************)

\* The positions of the cart whose item is not on the menu.
Unavailable == {i \in 1..Len(items) : items[i].name \notin menu}

CartIsValid == items # <<>> /\ Unavailable = {}

Least(S) == CHOOSE i \in S : \A j \in S : i <= j

\* The sum of unit price times quantity over the cart, taken from the end.
RECURSIVE CartSubtotal(_)
CartSubtotal(its) ==
    IF its = <<>> THEN 0
    ELSE CartSubtotal(SubSeq(its, 1, Len(its) - 1))
             + its[Len(its)].price * its[Len(its)].quantity

\* C1: validate_order fails exactly when the cart is empty or holds an item
\* that is not on the menu; an empty cart is reported as "Cart is empty",
\* otherwise the first unavailable item in cart order is named, and a cart
\* whose items are all on the menu is valid.
C1_ValidateOrder ==
    last.op = "validate_order" =>
        /\ (last.ret.success = FALSE) <=> (items = <<>> \/ Unavailable # {})
        /\ items = <<>> => last.ret.message = "Cart is empty"
        /\ (items # <<>> /\ Unavailable # {}) =>
               last.ret.message =
                   items[Least(Unavailable)].name \o " is not available"
        /\ CartIsValid => last.ret.success = TRUE

C1_Witness ==
    /\ last.op = "validate_order"
    /\ Len(items) = 2
    /\ Unavailable = {1, 2}
    /\ last.ret = [success |-> FALSE,
                   message |-> items[1].name \o " is not available"]

\* The charges of the last confirm_order call: positions of its
\* process_payment events.
Charges ==
    {k \in 1..Len(last.events) : last.events[k].fn = "process_payment"}

\* C2: a confirm_order call on a cart that fails validation makes no
\* process_payment call and returns success=false; a call on a valid cart
\* makes exactly one, after the validation, with the cart's current total
\* (subtotal * 1.10 + 5.00).
C2_NoChargeWithoutValidation ==
    last.op = "confirm_order" =>
        IF ~CartIsValid
        THEN Charges = {} /\ last.ret.success = FALSE
        ELSE /\ Cardinality(Charges) = 1
             /\ \A k \in Charges :
                   /\ \E v \in 1..(k - 1) :
                         /\ last.events[v].fn = "validate_order"
                         /\ last.events[v].ret.success
                   /\ 10 * last.events[k].amount
                          = 11 * CartSubtotal(items) + 50000

C2_Witness ==
    /\ last.op = "confirm_order"
    /\ Len(items) = 2
    /\ CartIsValid
    /\ Charges = {2}
    /\ last.events[2].amount > 5000

\* C3: on a valid cart confirm_order returns "Order confirmed" with
\* success=true when the payment method returns true and "Payment failed"
\* with success=false when it returns false; "Order confirmed" is returned
\* only by a call whose validation succeeded and whose payment, made after
\* it, succeeded.
C3_ConfirmedIffValidAndPaid ==
    last.op = "confirm_order" =>
        /\ CartIsValid =>
              \E k \in Charges :
                  IF last.events[k].ret
                  THEN /\ last.ret.success = TRUE
                       /\ last.ret.message = "Order confirmed"
                  ELSE last.ret = [success |-> FALSE,
                                   message |-> "Payment failed"]
        /\ last.ret.message = "Order confirmed" =>
              /\ CartIsValid
              /\ last.ret.success = TRUE
              /\ \E v, k \in 1..Len(last.events) :
                    /\ v < k
                    /\ last.events[v].fn = "validate_order"
                    /\ last.events[v].ret.success
                    /\ last.events[k].fn = "process_payment"
                    /\ last.events[k].ret

\* A valid cart whose total is not positive: PaymentMethod refuses it.
C3_Witness ==
    /\ last.op = "confirm_order"
    /\ last.pm = "PaymentMethod"
    /\ CartIsValid
    /\ last.ret = [success |-> FALSE, message |-> "Payment failed"]

Positions(name) == {i \in 1..Len(items) : items[i].name = name}

\* C4: while a name has only been added (to a cart that did not hold it, with
\* no remove_item or update_item_quantity of it since), the cart holds one
\* entry of that name, whose quantity is the sum of the quantities added and
\* whose unit price is the price of the first call.
C4_AddItemSums ==
    \A name \in Names :
        hist[name].tracked =>
            /\ Cardinality(Positions(name)) = 1
            /\ \A i \in Positions(name) :
                  /\ items[i].quantity = hist[name].sum
                  /\ items[i].price = hist[name].first

\* The second add_item of a name, after an add_item of the other name.
C4_Witness ==
    \E name \in Names :
        /\ hist[name].tracked
        /\ last.op = "add_item"
        /\ last.ret = "Updated " \o name \o " quantity to "
                          \o ToString(hist[name].sum)
        /\ Positions(name) = {1}
        /\ Len(items) = 2

\* C5: no two items of the cart share a name.
C5_UniqueNames ==
    \A i, j \in 1..Len(items) : i # j => items[i].name # items[j].name

\* Both "Burger" and "burger" are in the cart, one of them added twice.
C5_Witness ==
    /\ Len(items) = 2
    /\ {items[1].name, items[2].name} = {"Burger", "burger"}
    /\ last.op = "add_item"
    /\ last.ret = "Updated burger quantity to 2"

\* C6: calculate_total returns the subtotal (sum of unit price times
\* quantity), a tax of 10% of it, the delivery fee 5.00 and their sum as the
\* total, which is subtotal * 1.10 + 5.00; an empty cart has total 5.00.
C6_CalculateTotal ==
    last.op = "calculate_total" =>
        /\ last.ret.subtotal = CartSubtotal(items)
        /\ 10 * last.ret.tax = last.ret.subtotal
        /\ last.ret.delivery_fee = 5000
        /\ last.ret.total
               = last.ret.subtotal + last.ret.tax + last.ret.delivery_fee
        /\ 10 * last.ret.total = 11 * last.ret.subtotal + 50000
        /\ items = <<>> => last.ret.total = 5000

C6_Witness ==
    /\ last.op = "calculate_total"
    /\ Len(items) = 2
    /\ items[1].quantity = 2
    /\ items[2].quantity = 0 - 1
    /\ last.ret.total = 10 * last.ret.tax + last.ret.tax + 5000
    /\ last.ret.tax > 0

(***************************************************************************)
(* PaymentProcessing                                                       *)
(*                                                                         *)
(* A Python value is a record with its type: None is [type |-> "NoneType"] *)
(* and a dict is [type |-> "dict", key |-> <<>> or <<value>>, ...], <<>>   *)
(* for a key the dict does not hold.  A call returns [raised |-> FALSE,    *)
(* value |-> v] or raises: [raised |-> TRUE, exc |-> class, msg |-> str(e)]*)
(***************************************************************************)

None == [type |-> "NoneType"]

\* The declined card of mock_payment_gateway.
SentinelCard == "1111222233334444"

\* Card numbers: two of 16 digits, one of 16 characters that are not all
\* digits, and ones of 4, 0 and 17 characters.
CardNumbers ==
    {"1234567812345678", SentinelCard, "4111-1111-1111-1", "1234", "",
     "12345678123456789"}

Cvvs == {"123", "12", "abc", "1234"}

PaymentDetails ==
    {None} \cup
    { [type |-> "dict", card_number |-> c, cvv |-> v] :
          c \in {<<>>} \cup {<<n>> : n \in CardNumbers},
          v \in {<<>>} \cup {<<n>> : n \in Cvvs} }

\* Orders: with a total amount (100.00, 0 or -1.00, in mills), without the key,
\* and None.
Orders ==
    {None, [type |-> "dict", total_amount |-> <<>>]} \cup
    { [type |-> "dict", total_amount |-> <<a>>] : a \in {100000, 0, 0 - 1000} }

Methods == {"credit_card", "paypal", "bitcoin"}

Return(v) == [raised |-> FALSE, value |-> v]

Raise(exc, msg) == [raised |-> TRUE, exc |-> exc, msg |-> msg]

\* self.available_gateways
available_gateways == {"credit_card", "paypal"}

\* details.get(key, "") for the two keys read.
get_card_number(details) ==
    IF details.card_number = <<>> THEN "" ELSE details.card_number[1]

get_cvv(details) == IF details.cvv = <<>> THEN "" ELSE details.cvv[1]

CardNumberLength == 16

CvvLength == 3

\* A check that rejects only when both lengths are wrong.
validate_credit_card_both(details) ==
    IF details.type = "NoneType"
    THEN Raise("AttributeError", "'NoneType' object has no attribute 'get'")
    ELSE IF Len(get_card_number(details)) # CardNumberLength
              /\ Len(get_cvv(details)) # CvvLength
         THEN Return(FALSE)
         ELSE Return(TRUE)

validate_credit_card(details) ==
    IF details.type = "NoneType"
    THEN Raise("AttributeError", "'NoneType' object has no attribute 'get'")
    ELSE IF Len(get_card_number(details)) # CardNumberLength
              \/ Len(get_cvv(details)) # CvvLength
         THEN Return(FALSE)
         ELSE Return(TRUE)

validate_payment_method(payment_method, payment_details) ==
    IF payment_method \notin available_gateways
    THEN Raise("ValueError", "Invalid payment method")
    ELSE IF payment_method = "credit_card"
    THEN LET r == validate_credit_card(payment_details) IN
         IF r.raised THEN r
         ELSE IF ~r.value
         THEN Raise("ValueError", "Invalid credit card details")
         ELSE Return(TRUE)
    ELSE Return(TRUE)

\* A gateway that declines the sentinel card whatever the method.
mock_payment_gateway_any_method(method, details, amount) ==
    IF details.type = "NoneType"
    THEN Raise("TypeError", "'NoneType' object is not subscriptable")
    ELSE IF details.card_number = <<>>
    THEN Raise("KeyError", "'card_number'")
    ELSE IF details.card_number[1] = SentinelCard
    THEN Return([status |-> "failure", message |-> "Card declined"])
    ELSE Return([status |-> "success", transaction_id |-> "abc123"])

\* "method == 'credit_card' and details['card_number'] == ...": the details
\* are read only for credit_card.
mock_payment_gateway(method, details, amount) ==
    IF method = "credit_card"
    THEN IF details.type = "NoneType"
         THEN Raise("TypeError", "'NoneType' object is not subscriptable")
         ELSE IF details.card_number = <<>>
         THEN Raise("KeyError", "'card_number'")
         ELSE IF details.card_number[1] = SentinelCard
         THEN Return([status |-> "failure", message |-> "Card declined"])
         ELSE Return([status |-> "success", transaction_id |-> "abc123"])
    ELSE Return([status |-> "success", transaction_id |-> "abc123"])

\* order["total_amount"]
total_amount(order) ==
    IF order.type = "NoneType"
    THEN Raise("TypeError", "'NoneType' object is not subscriptable")
    ELSE IF order.total_amount = <<>>
    THEN Raise("KeyError", "'total_amount'")
    ELSE Return(order.total_amount[1])

\* "except Exception as e: return f'Error: {str(e)}'"
except_Exception(e) == Return("Error: " \o e.msg)

\* A handler that lets the fault through.
process_payment_no_except(order, payment_method, payment_details) ==
    LET v == validate_payment_method(payment_method, payment_details) IN
    IF v.raised THEN [out |-> v, gateway |-> <<>>]
    ELSE LET a == total_amount(order) IN
         IF a.raised THEN [out |-> a, gateway |-> <<>>]
         ELSE LET g == mock_payment_gateway(payment_method, payment_details,
                                            a.value)
                  call == <<[method |-> payment_method,
                             details |-> payment_details,
                             amount |-> a.value]>>
              IN  IF g.raised THEN [out |-> g, gateway |-> call]
                  ELSE IF g.value.status = "success"
                  THEN [out |-> Return("Payment successful, Order confirmed"),
                        gateway |-> call]
                  ELSE [out |-> Return("Payment failed, please try again"),
                        gateway |-> call]

\* PaymentProcessing.process_payment: what it returns (or raises) and the
\* calls it makes on the gateway.
PaymentProcessing_process_payment(order, payment_method, payment_details) ==
    LET v == validate_payment_method(payment_method, payment_details) IN
    IF v.raised THEN [out |-> except_Exception(v), gateway |-> <<>>]
    ELSE LET a == total_amount(order) IN
         IF a.raised THEN [out |-> except_Exception(a), gateway |-> <<>>]
         ELSE LET g == mock_payment_gateway(payment_method, payment_details,
                                            a.value)
                  call == <<[method |-> payment_method,
                             details |-> payment_details,
                             amount |-> a.value]>>
              IN  IF g.raised
                  THEN [out |-> except_Exception(g), gateway |-> call]
                  ELSE IF g.value.status = "success"
                  THEN [out |-> Return("Payment successful, Order confirmed"),
                        gateway |-> call]
                  ELSE [out |-> Return("Payment failed, please try again"),
                        gateway |-> call]

(***************************************************************************)
(* The payment state machine: PaymentProcessing keeps no state between     *)
(* calls, pay is the last call and its outcome.                            *)
(***************************************************************************)

InitPayment == OrderIdle /\ PaymentIdle /\ RegistrationIdle /\ BrowsingIdle

ValidateCreditCard ==
    \E details \in PaymentDetails :
        /\ pay' = [fn |-> "validate_credit_card", details |-> details,
                   out |-> validate_credit_card(details)]
        /\ UNCHANGED <<items, menu, last, hist, user_profile>>
        /\ UNCHANGED <<users, reg, accepted, restaurants, search>>

ValidatePaymentMethod ==
    \E method \in Methods, details \in PaymentDetails :
        /\ pay' = [fn |-> "validate_payment_method", method |-> method,
                   details |-> details,
                   out |-> validate_payment_method(method, details)]
        /\ UNCHANGED <<items, menu, last, hist, user_profile>>
        /\ UNCHANGED <<users, reg, accepted, restaurants, search>>

MockPaymentGateway ==
    \E method \in Methods, details \in PaymentDetails,
       amount \in {100000, 0} :
        /\ pay' = [fn |-> "mock_payment_gateway", method |-> method,
                   details |-> details, amount |-> amount,
                   out |-> mock_payment_gateway(method, details, amount)]
        /\ UNCHANGED <<items, menu, last, hist, user_profile>>
        /\ UNCHANGED <<users, reg, accepted, restaurants, search>>

ProcessPayment ==
    \E order \in Orders, method \in Methods, details \in PaymentDetails :
        LET r == PaymentProcessing_process_payment(order, method, details) IN
        /\ pay' = [fn |-> "process_payment", order |-> order,
                   method |-> method, details |-> details,
                   out |-> r.out, gateway |-> r.gateway]
        /\ UNCHANGED <<items, menu, last, hist, user_profile>>
        /\ UNCHANGED <<users, reg, accepted, restaurants, search>>

NextPayment ==
    \/ ValidateCreditCard
    \/ ValidatePaymentMethod
    \/ MockPaymentGateway
    \/ ProcessPayment

SpecPayment == InitPayment /\ [][NextPayment]_vars

(***************************************************************************)
(* Properties of payment processing                                        *)
(***************************************************************************)

\* The details are a dict that holds card number c.
HasCard(details, c) == details.type = "dict" /\ details.card_number = <<c>>

\* The details are a dict with a card number of 16 characters and a cvv of 3.
CardAccepted(details) ==
    /\ details.type = "dict"
    /\ \E c \in CardNumbers : details.card_number = <<c>> /\ Len(c) = 16
    /\ \E v \in Cvvs : details.cvv = <<v>> /\ Len(v) = 3

Supported(method) == method \in {"credit_card", "paypal"}

ValidationPasses(method, details) ==
    Supported(method) /\ (method = "credit_card" => CardAccepted(details))

\* str(e) of the faults a call can end in.
FaultReasons ==
    {"Invalid payment method", "Invalid credit card details",
     "'total_amount'", "'card_number'",
     "'NoneType' object has no attribute 'get'",
     "'NoneType' object is not subscriptable"}

\* C7: process_payment raises nothing and returns the success message, the
\* failure message or "Error: <reason>"; an unsupported method gives
\* "Error: Invalid payment method"; the gateway is not called when the
\* validation fails.
C7_ProcessPaymentTotal ==
    pay.fn = "process_payment" =>
        /\ ~pay.out.raised
        /\ pay.out.value \in
               {"Payment successful, Order confirmed",
                "Payment failed, please try again"}
               \cup {"Error: " \o r : r \in FaultReasons}
        /\ ~Supported(pay.method) =>
               pay.out.value = "Error: Invalid payment method"
        /\ ~ValidationPasses(pay.method, pay.details) => pay.gateway = <<>>

C7_Witness ==
    /\ pay.fn = "process_payment"
    /\ pay.method = "bitcoin"
    /\ CardAccepted(pay.details)
    /\ pay.order = [type |-> "dict", total_amount |-> <<100000>>]
    /\ pay.out = Return("Error: Invalid payment method")
    /\ pay.gateway = <<>>

\* C8: validate_credit_card accepts a dict exactly when its card number has
\* 16 characters and its cvv 3; validate_payment_method raises "Invalid
\* payment method" for a method other than credit_card and paypal, raises
\* "Invalid credit card details" for credit_card exactly when
\* validate_credit_card rejects, and returns true otherwise (for paypal
\* whatever the details).
C8_Validation ==
    /\ (pay.fn = "validate_credit_card" /\ pay.details.type = "dict") =>
           pay.out = Return(CardAccepted(pay.details))
    /\ pay.fn = "validate_payment_method" =>
           /\ ~Supported(pay.method) =>
                  pay.out = Raise("ValueError", "Invalid payment method")
           /\ pay.method = "paypal" => pay.out = Return(TRUE)
           /\ (pay.method = "credit_card" /\ pay.details.type = "dict") =>
                  pay.out = IF CardAccepted(pay.details)
                            THEN Return(TRUE)
                            ELSE Raise("ValueError",
                                       "Invalid credit card details")

\* 16 characters that are not digits and a cvv of letters pass.
C8_Witness ==
    /\ pay.fn = "validate_payment_method"
    /\ pay.method = "credit_card"
    /\ pay.details = [type |-> "dict", card_number |-> <<"4111-1111-1111-1">>,
                      cvv |-> <<"abc">>]
    /\ pay.out = Return(TRUE)

\* C9, as claimed: the gateway declines exactly the details that carry the
\* sentinel card number, for every method, and process_payment with details
\* that pass validation returns the failure message exactly for them.
C9_SentinelAnyMethod ==
    /\ (pay.fn = "mock_payment_gateway" /\ ~pay.out.raised) =>
           (pay.out.value.status = "failure"
                <=> HasCard(pay.details, SentinelCard))
    /\ (pay.fn = "process_payment"
          /\ ValidationPasses(pay.method, pay.details)
          /\ total_amount(pay.order).raised = FALSE) =>
           (pay.out.value = "Payment failed, please try again"
                <=> HasCard(pay.details, SentinelCard))

\* C9, amended: the gateway declines exactly credit_card with the sentinel
\* card number, for every amount; every other method, and credit_card with
\* another card number, gets status "success" with a transaction id (for
\* credit_card without a readable card number the gateway raises); and
\* process_payment with details that pass validation and an order that has
\* a total amount returns the failure message exactly for credit_card with
\* the sentinel card, the success message otherwise.
C9_SentinelCreditCard ==
    /\ pay.fn = "mock_payment_gateway" =>
           /\ pay.out.raised <=>
                  /\ pay.method = "credit_card"
                  /\ \A c \in CardNumbers : ~HasCard(pay.details, c)
           /\ ~pay.out.raised =>
                  pay.out.value =
                      IF pay.method = "credit_card"
                           /\ HasCard(pay.details, SentinelCard)
                      THEN [status |-> "failure", message |-> "Card declined"]
                      ELSE [status |-> "success", transaction_id |-> "abc123"]
    /\ (pay.fn = "process_payment"
          /\ ValidationPasses(pay.method, pay.details)
          /\ total_amount(pay.order).raised = FALSE) =>
           /\ Len(pay.gateway) = 1
           /\ pay.out =
                  IF pay.method = "credit_card"
                       /\ HasCard(pay.details, SentinelCard)
                  THEN Return("Payment failed, please try again")
                  ELSE Return("Payment successful, Order confirmed")

\* paypal with the sentinel card number is charged.
C9_Witness ==
    /\ pay.fn = "process_payment"
    /\ pay.method = "paypal"
    /\ HasCard(pay.details, SentinelCard)
    /\ pay.out = Return("Payment successful, Order confirmed")
    /\ Len(pay.gateway) = 1

(***************************************************************************)
(* UserRegistration                                                        *)
(*                                                                         *)
(* A string is the sequence of its characters, so that the email and       *)
(* password checks are computed character by character.                    *)
(***************************************************************************)

\* Emails: without "@", two well-formed ones, the shortest the check
\* accepts, without a dot, with the dot before the "@" only, and with a
\* second "@" after the dot.
Emails ==
    {
     <<"n", "o", "-", "a", "t", "-", "s", "i", "g", "n">>,  \* no-at-sign
     <<"a", "@", "b", ".", "c">>,  \* a@b.c
     <<"u", "@", "v", ".", "w">>,  \* u@v.w
     <<"@", ".">>,  \* @.
     <<"a", "@", "b">>,  \* a@b
     <<"a", ".", "b", "@", "c">>,  \* a.b@c
     <<"a", "@", "b", ".", "c", "@", "d">>   \* a@b.c@d
    }

\* Passwords: too short, without a digit, without a letter, and two strong.
Passwords ==
    {
     <<"s", "h", "o", "r", "t", "1">>,  \* short1
     <<"p", "a", "s", "s", "w", "o", "r", "d">>,  \* password
     <<"1", "2", "3", "4", "5", "6", "7", "8">>,  \* 12345678
     <<"p", "a", "s", "s", "w", "0", "r", "d">>,  \* passw0rd
     <<"S", "t", "r", "0", "n", "g", "P", "w", "d">>   \* Str0ngPwd
    }

Letters ==
    {"a", "b", "c", "d", "e", "f", "g", "h", "i", "j", "k", "l", "m", "n",
     "o", "p", "q", "r", "s", "t", "u", "v", "w", "x", "y", "z",
     "A", "B", "C", "D", "E", "F", "G", "H", "I", "J", "K", "L", "M", "N",
     "O", "P", "Q", "R", "S", "T", "U", "V", "W", "X", "Y", "Z"}

Digits == {"0", "1", "2", "3", "4", "5", "6", "7", "8", "9"}

isalpha(c) == c \in Letters

isdigit(c) == c \in Digits

\* "ch in s"
contains(s, ch) == \E i \in 1..Len(s) : s[i] = ch

\* s.split("@")[-1]: what follows the last "@", all of s if it has none.
RECURSIVE last_part(_)
last_part(s) ==
    IF s = <<>> THEN <<>>
    ELSE IF s[Len(s)] = "@" THEN <<>>
    ELSE Append(last_part(SubSeq(s, 1, Len(s) - 1)), s[Len(s)])

is_valid_email(email) ==
    contains(email, "@") /\ contains(last_part(email), ".")

MinPasswordLength == 8

\* A strength check that asks for a digit or a letter.
is_strong_password_either(password) ==
    /\ Len(password) >= MinPasswordLength
    /\ \/ \E i \in 1..Len(password) : isdigit(password[i])
       \/ \E i \in 1..Len(password) : isalpha(password[i])

is_strong_password(password) ==
    /\ Len(password) >= MinPasswordLength
    /\ \E i \in 1..Len(password) : isdigit(password[i])
    /\ \E i \in 1..Len(password) : isalpha(password[i])

Failure(error) == [success |-> FALSE, error |-> error]

\* self.users[email] = {"password": password, "confirmed": False}
store(us, email, password) ==
    [e \in DOMAIN us \cup {email} |->
        IF e = email THEN [password |-> password, confirmed |-> FALSE]
        ELSE us[e]]

\* A register that checks the strength before the confirmation.
register_strength_first(us, email, password, confirm_password) ==
    IF ~is_valid_email(email)
    THEN [users |-> us, ret |-> Failure("Invalid email format")]
    ELSE IF ~is_strong_password(password)
    THEN [users |-> us, ret |-> Failure("Password is not strong enough")]
    ELSE IF password # confirm_password
    THEN [users |-> us, ret |-> Failure("Passwords do not match")]
    ELSE IF email \in DOMAIN us
    THEN [users |-> us, ret |-> Failure("Email already registered")]
    ELSE [users |-> store(us, email, password),
          ret |-> [success |-> TRUE,
                   message |->
                     "Registration successful, confirmation email sent"]]

\* A register without the uniqueness check: a repeat overwrites the record.
register_overwrite(us, email, password, confirm_password) ==
    IF ~is_valid_email(email)
    THEN [users |-> us, ret |-> Failure("Invalid email format")]
    ELSE IF password # confirm_password
    THEN [users |-> us, ret |-> Failure("Passwords do not match")]
    ELSE IF ~is_strong_password(password)
    THEN [users |-> us, ret |-> Failure("Password is not strong enough")]
    ELSE [users |-> store(us, email, password),
          ret |-> [success |-> TRUE,
                   message |->
                     "Registration successful, confirmation email sent"]]

register(us, email, password, confirm_password) ==
    IF ~is_valid_email(email)
    THEN [users |-> us, ret |-> Failure("Invalid email format")]
    ELSE IF password # confirm_password
    THEN [users |-> us, ret |-> Failure("Passwords do not match")]
    ELSE IF ~is_strong_password(password)
    THEN [users |-> us, ret |-> Failure("Password is not strong enough")]
    ELSE IF email \in DOMAIN us
    THEN [users |-> us, ret |-> Failure("Email already registered")]
    ELSE [users |-> store(us, email, password),
          ret |-> [success |-> TRUE,
                   message |->
                     "Registration successful, confirmation email sent"]]

(***************************************************************************)
(* The registration state machine: reg is the last register call, with     *)
(* the users mapping it was made on.                                       *)
(***************************************************************************)

InitRegistration ==
    OrderIdle /\ PaymentIdle /\ RegistrationIdle /\ BrowsingIdle

Register ==
    \E email \in Emails, password \in Passwords,
       confirm_password \in Passwords :
        LET r == register(users, email, password, confirm_password) IN
        /\ users' = r.users
        /\ reg' = [fn |-> "register", email |-> email,
                   password |-> password,
                   confirm_password |-> confirm_password,
                   before |-> users, ret |-> r.ret]
        /\ accepted' =
              IF r.ret.success
              THEN [e \in DOMAIN accepted \cup {email} |->
                      IF e = email
                      THEN IF e \in DOMAIN accepted
                           THEN Append(accepted[e], password)
                           ELSE <<password>>
                      ELSE accepted[e]]
              ELSE accepted
        /\ UNCHANGED <<items, menu, last, hist, user_profile>>
        /\ UNCHANGED <<pay, restaurants, search>>

NextRegistration == Register

SpecRegistration == InitRegistration /\ [][NextRegistration]_vars

(***************************************************************************)
(* Properties of registration                                              *)
(***************************************************************************)

\* The email has an "@", and a "." somewhere after its last "@".
EmailShape(e) ==
    \E a \in 1..Len(e) :
        /\ e[a] = "@"
        /\ \A k \in (a + 1)..Len(e) : e[k] # "@"
        /\ \E k \in (a + 1)..Len(e) : e[k] = "."

\* At least 8 characters, among them a letter and a digit.
Strong(p) ==
    /\ Len(p) >= 8
    /\ {i \in 1..Len(p) : p[i] \in Letters} # {}
    /\ {i \in 1..Len(p) : p[i] \in Digits} # {}

\* C10: register reports the first failing check in the order email shape,
\* password/confirmation equality, password strength, email uniqueness, and
\* succeeds when none fails; a call that fails leaves users unchanged.
C10_RegisterFailFast ==
    reg.fn = "register" =>
        /\ reg.ret =
              IF ~EmailShape(reg.email)
              THEN [success |-> FALSE, error |-> "Invalid email format"]
              ELSE IF reg.password # reg.confirm_password
              THEN [success |-> FALSE, error |-> "Passwords do not match"]
              ELSE IF ~Strong(reg.password)
              THEN [success |-> FALSE,
                    error |-> "Password is not strong enough"]
              ELSE IF reg.email \in DOMAIN reg.before
              THEN [success |-> FALSE, error |-> "Email already registered"]
              ELSE [success |-> TRUE,
                    message |->
                      "Registration successful, confirmation email sent"]
        /\ reg.ret.success = FALSE => users = reg.before

\* A registered email, a weak password and a different confirmation: of the
\* three failing checks the first in order is reported.
C10_Witness ==
    /\ reg.fn = "register"
    /\ reg.email \in DOMAIN reg.before
    /\ reg.password # reg.confirm_password
    /\ ~Strong(reg.password)
    /\ reg.ret = [success |-> FALSE, error |-> "Passwords do not match"]
    /\ users = reg.before

\* The call is valid but for the uniqueness of its email.
OtherwiseValid ==
    /\ EmailShape(reg.email)
    /\ reg.password = reg.confirm_password
    /\ Strong(reg.password)

\* C11: a valid registration of an email that is not registered succeeds;
\* once an email is registered every register call with it fails, with
\* "Email already registered" when it is otherwise valid, and leaves the
\* stored password as it was; no email has more than one successful call.
C11_EmailUniqueKey ==
    /\ \A e \in DOMAIN accepted :
          /\ Len(accepted[e]) = 1
          /\ e \in DOMAIN users
          /\ users[e].password = accepted[e][1]
    /\ reg.fn = "register" =>
          /\ (OtherwiseValid /\ reg.email \notin DOMAIN reg.before) =>
                /\ reg.ret.success = TRUE
                /\ reg.email \in DOMAIN users
          /\ reg.email \in DOMAIN reg.before =>
                /\ reg.ret.success = FALSE
                /\ users[reg.email] = reg.before[reg.email]
                /\ OtherwiseValid =>
                      reg.ret.error = "Email already registered"

\* A repeat with another strong password: refused, the first one is kept.
C11_Witness ==
    /\ reg.fn = "register"
    /\ reg.email \in DOMAIN reg.before
    /\ OtherwiseValid
    /\ reg.password # users[reg.email].password
    /\ accepted[reg.email] = <<users[reg.email].password>>
    /\ reg.ret = [success |-> FALSE, error |-> "Email already registered"]

\* C15: every stored record has confirmed = false, an email of valid shape
\* as its key and a strong password, the one passed to the successful call
\* for that email; a register call removes no registered email.
C15_StoredRecords ==
    /\ \A e \in DOMAIN users :
          /\ users[e].confirmed = FALSE
          /\ EmailShape(e)
          /\ Strong(users[e].password)
          /\ e \in DOMAIN accepted
          /\ \E k \in 1..Len(accepted[e]) :
                users[e].password = accepted[e][k]
    /\ reg.fn = "register" => DOMAIN reg.before \subseteq DOMAIN users

\* All three emails of valid shape are registered, the last by this call.
C15_Witness ==
    /\ reg.fn = "register"
    /\ reg.ret.success = TRUE
    /\ Cardinality(DOMAIN users) = 3
    /\ Cardinality(DOMAIN reg.before) = 2
    /\ users[reg.email] = [password |-> reg.password, confirmed |-> FALSE]

(***************************************************************************)
(* Properties of checkout and of remove_item                               *)
(***************************************************************************)

\* The lines of the cart as view_cart shows them.
CartView ==
    [i \in 1..Len(items) |->
        [name |-> items[i].name, quantity |-> items[i].quantity,
         subtotal |-> items[i].price * items[i].quantity]]

\* The totals of the cart: subtotal, 10% tax, 5.00 delivery fee, total.
CartTotals ==
    LET subtotal == CartSubtotal(items) IN
    [subtotal |-> subtotal, tax |-> subtotal \div 10, delivery_fee |-> 5000,
     total |-> subtotal + subtotal \div 10 + 5000]

\* C13: proceed_to_checkout can be called in every state; it leaves the
\* cart, the user profile and the menu as they were, and what it returns is
\* the view, the totals and the delivery address of the current cart and
\* profile (so that two calls with no cart mutation in between return equal
\* results).
C13_CheckoutPureRead ==
    /\ ENABLED ProceedToCheckout
    /\ last.op = "proceed_to_checkout" =>
          /\ items = last.before.items
          /\ menu = last.before.menu
          /\ user_profile = last.before.user_profile
          /\ last.ret = [items |-> CartView, total_info |-> CartTotals,
                         delivery_address |-> user_profile.delivery_address]

\* A checkout of a cart of two items, one of which is not on the menu.
C13_Witness ==
    /\ last.op = "proceed_to_checkout"
    /\ Len(items) = 2
    /\ Unavailable = {2}
    /\ Len(last.ret.items) = 2
    /\ last.ret.total_info.total # 5000
    /\ last.ret.delivery_address = "123 Main St"

\* The positions of the cart before the last remove_item that held its name.
Removed == {i \in 1..Len(last.before) : last.before[i].name = last.name}

Str(s) == [type |-> "str", value |-> s]

Float(x) == [type |-> "float", value |-> x]

UpperCase ==
    <<"A", "B", "C", "D", "E", "F", "G", "H", "I", "J", "K", "L", "M", "N",
      "O", "P", "Q", "R", "S", "T", "U", "V", "W", "X", "Y", "Z">>

LowerCase ==
    <<"a", "b", "c", "d", "e", "f", "g", "h", "i", "j", "k", "l", "m", "n",
      "o", "p", "q", "r", "s", "t", "u", "v", "w", "x", "y", "z">>

\* str.lower(), character by character.
lower_char(c) ==
    IF \E k \in 1..Len(UpperCase) : UpperCase[k] = c
    THEN LowerCase[CHOOSE k \in 1..Len(UpperCase) : UpperCase[k] = c]
    ELSE c

lower(s) == [i \in 1..Len(s) |-> lower_char(s[i])]

\* The truth value Python gives an argument in "if cuisine_type:".
truthy(v) ==
    CASE v.type = "NoneType" -> FALSE
      [] v.type = "str" -> v.value # <<>>
      [] v.type = "float" -> v.value # 0

\* Cuisines and locations searched for: the empty string, names of the
\* records in their case and in others, and names of one data set only.
Cuisines ==
    {<<>>,
     <<"I", "t", "a", "l", "i", "a", "n">>,
     <<"i", "t", "a", "l", "i", "a", "n">>,
     <<"I", "T", "A", "L", "I", "A", "N">>,
     <<"M", "e", "x", "i", "c", "a", "n">>,
     <<"F", "a", "s", "t", " ", "F", "o", "o", "d">>}

Locations ==
    {<<>>,
     <<"D", "o", "w", "n", "t", "o", "w", "n">>,
     <<"D", "O", "W", "N", "T", "O", "W", "N">>,
     <<"U", "p", "t", "o", "w", "n">>}

\* Minimum ratings: -0.5, 0, 4.0, 4.3 and 5.0.
MinRatings == {0 - 5, 0, 40, 43, 50}

get_restaurants(database) == database

search_by_cuisine(database, cuisine_type) ==
    SelectSeq(get_restaurants(database),
              LAMBDA restaurant :
                  lower(restaurant.cuisine) = lower(cuisine_type))

search_by_location(database, location) ==
    SelectSeq(get_restaurants(database),
              LAMBDA restaurant :
                  lower(restaurant.location) = lower(location))

search_by_rating(database, min_rating) ==
    SelectSeq(get_restaurants(database),
              LAMBDA restaurant : restaurant.rating >= min_rating)

\* A search whose location filter reads the database again and so drops
\* the cuisine filter.
search_by_filters_rescan(database, cuisine_type, location, min_rating) ==
    LET all == get_restaurants(database)
        by_cuisine ==
            IF truthy(cuisine_type)
            THEN SelectSeq(all, LAMBDA restaurant :
                     lower(restaurant.cuisine) = lower(cuisine_type.value))
            ELSE all
        by_location ==
            IF truthy(location)
            THEN SelectSeq(all, LAMBDA restaurant :
                     lower(restaurant.location) = lower(location.value))
            ELSE by_cuisine
    IN  IF truthy(min_rating)
        THEN SelectSeq(by_location, LAMBDA restaurant :
                 restaurant.rating >= min_rating.value)
        ELSE by_location

search_by_filters(database, cuisine_type, location, min_rating) ==
    LET all == get_restaurants(database)
        by_cuisine ==
            IF truthy(cuisine_type)
            THEN SelectSeq(all, LAMBDA restaurant :
                     lower(restaurant.cuisine) = lower(cuisine_type.value))
            ELSE all
        by_location ==
            IF truthy(location)
            THEN SelectSeq(by_cuisine, LAMBDA restaurant :
                     lower(restaurant.location) = lower(location.value))
            ELSE by_cuisine
    IN  IF truthy(min_rating)
        THEN SelectSeq(by_location, LAMBDA restaurant :
                 restaurant.rating >= min_rating.value)
        ELSE by_location

\* RestaurantSearch.search_restaurants
search_restaurants(database, cuisine, location, rating) ==
    search_by_filters(database, cuisine, location, rating)

(***************************************************************************)
(* The browsing state machine: the database is fixed at construction,      *)
(* search is the last call and what it returned.                           *)
(***************************************************************************)

InitBrowsing ==
    /\ OrderIdle
    /\ PaymentIdle
    /\ RegistrationIdle
    /\ restaurants \in Databases
    /\ search = [fn |-> "none"]

SearchByCuisine ==
    \E cuisine_type \in Cuisines :
        /\ search' = [fn |-> "search_by_cuisine",
                      cuisine_type |-> cuisine_type,
                      out |-> search_by_cuisine(restaurants, cuisine_type)]
        /\ UNCHANGED <<items, menu, last, hist, user_profile>>
        /\ UNCHANGED <<pay, users, reg, accepted, restaurants>>

SearchByLocation ==
    \E location \in Locations :
        /\ search' = [fn |-> "search_by_location", location |-> location,
                      out |-> search_by_location(restaurants, location)]
        /\ UNCHANGED <<items, menu, last, hist, user_profile>>
        /\ UNCHANGED <<pay, users, reg, accepted, restaurants>>

SearchByRating ==
    \E min_rating \in MinRatings :
        /\ search' = [fn |-> "search_by_rating", min_rating |-> min_rating,
                      out |-> search_by_rating(restaurants, min_rating)]
        /\ UNCHANGED <<items, menu, last, hist, user_profile>>
        /\ UNCHANGED <<pay, users, reg, accepted, restaurants>>

SearchByFilters ==
    \E cuisine_type \in {None} \cup {Str(c) : c \in Cuisines},
       location \in {None} \cup {Str(l) : l \in Locations},
       min_rating \in {None} \cup {Float(m) : m \in MinRatings} :
        /\ search' = [fn |-> "search_by_filters",
                      cuisine_type |-> cuisine_type, location |-> location,
                      min_rating |-> min_rating,
                      out |-> search_by_filters(restaurants, cuisine_type,
                                                location, min_rating)]
        /\ UNCHANGED <<items, menu, last, hist, user_profile>>
        /\ UNCHANGED <<pay, users, reg, accepted, restaurants>>

SearchRestaurants ==
    \E cuisine \in {None} \cup {Str(c) : c \in Cuisines},
       location \in {None} \cup {Str(l) : l \in Locations},
       rating \in {None} \cup {Float(m) : m \in MinRatings} :
        /\ search' = [fn |-> "search_restaurants",
                      cuisine_type |-> cuisine, location |-> location,
                      min_rating |-> rating,
                      out |-> search_restaurants(restaurants, cuisine,
                                                 location, rating)]
        /\ UNCHANGED <<items, menu, last, hist, user_profile>>
        /\ UNCHANGED <<pay, users, reg, accepted, restaurants>>

NextBrowsing ==
    \/ SearchByCuisine
    \/ SearchByLocation
    \/ SearchByRating
    \/ SearchByFilters
    \/ SearchRestaurants

SpecBrowsing == InitBrowsing /\ [][NextBrowsing]_vars

(***************************************************************************)
(* Properties of restaurant search                                         *)
(***************************************************************************)

\* a and b are equal up to the case of their letters.
SameIgnoringCase(a, b) ==
    /\ Len(a) = Len(b)
    /\ \A i \in 1..Len(a) :
          \/ a[i] = b[i]
          \/ \E k \in 1..Len(UpperCase) :
                {a[i], b[i]} = {UpperCase[k], LowerCase[k]}

\* The records of db that satisfy P, in the order of db.
Kept(db, P(_)) ==
    LET M == {i \in 1..Len(db) : P(db[i])} IN
    [k \in 1..Cardinality(M) |->
        db[CHOOSE i \in M : Cardinality({j \in M : j <= i}) = k]]

Records(list) == {list[i] : i \in 1..Len(list)}

\* The argument is neither None nor an empty string.
NonNull(v) == v.type # "NoneType" /\ (v.type = "str" => v.value # <<>>)

\* The argument is neither None, nor an empty string, nor a rating of zero.
Supplied(v) == NonNull(v) /\ (v.type = "float" => v.value # 0)

\* search_by_filters returned the records that satisfy every predicate whose
\* argument is Given, and with all three Given the intersection of the three
\* single searches; on the sample data ("Italian", "Downtown", 4.0) gives
\* "Italian Bistro".
FiltersConjunctive(Given(_)) ==
    search.fn = "search_by_filters" =>
        LET c == search.cuisine_type
            l == search.location
            m == search.min_rating
            Match(r) ==
                /\ Given(c) => SameIgnoringCase(r.cuisine, c.value)
                /\ Given(l) => SameIgnoringCase(r.location, l.value)
                /\ Given(m) => r.rating >= m.value
            InAll(r) ==
                /\ r \in Records(search_by_cuisine(restaurants, c.value))
                /\ r \in Records(search_by_location(restaurants, l.value))
                /\ r \in Records(search_by_rating(restaurants, m.value))
        IN  /\ search.out = Kept(restaurants, Match)
            /\ (Given(c) /\ Given(l) /\ Given(m)) =>
                   search.out = Kept(restaurants, InAll)
            /\ (/\ restaurants = SampleRestaurants
                /\ c = Str(<<"I", "t", "a", "l", "i", "a", "n">>)
                /\ l = Str(<<"D", "o", "w", "n", "t", "o", "w", "n">>)
                /\ m = Float(40)) =>
                   /\ Len(search.out) = 1
                   /\ search.out[1].name = "Italian Bistro"

\* C12, as claimed: each predicate is applied exactly when its argument is
\* non-empty and non-null.
C12_FiltersNonNull == FiltersConjunctive(NonNull)

\* C12, amended: each predicate is applied exactly when its argument is
\* non-empty, non-null and, for min_rating, not zero; a min_rating of 0 is
\* taken as no filter.
C12_FiltersSupplied == FiltersConjunctive(Supplied)

\* A min_rating of 0 on the record set with a rating below 0: the record is
\* returned.
C12_Witness ==
    /\ search.fn = "search_by_filters"
    /\ restaurants = OtherRestaurants
    /\ search.cuisine_type = Str(<<"I", "t", "a", "l", "i", "a", "n">>)
    /\ search.location = Str(<<"D", "O", "W", "N", "T", "O", "W", "N">>)
    /\ search.min_rating = Float(0)
    /\ Len(search.out) = 3
    /\ search.out[2].name = "Below Zero"

====
